---- MODULE Spec2Model ----
(***************************************************************************)
(* Model of plugins/modules/k8s_log.py: KubernetesLogModule.execute_module *)
(* (the resource-to-log resolution) and extract_selectors (the derivation  *)
(* of a Pod label selector from a controller's spec.selector).             *)
(*                                                                         *)
(* One behaviour is one invocation of the module.  The parameters are      *)
(* drawn in Init; every answer of the cluster (descriptor lookup, get,     *)
(* list, log) is drawn when the call is made.  A Python string is a TLA+   *)
(* string, a Python list a sequence, a Python dict the sequence of its     *)
(* (key, value) entries in iteration order.                                *)
(***************************************************************************)
EXTENDS Integers, Sequences, FiniteSets, TLC

VARIABLES
    params,          \* self.params: the caller's TargetSpec
    pc,              \* position of execute_module
    name,            \* local `name`
    label_selector,  \* local `label_selector`
    resource,        \* local `resource`: descriptor the log is fetched on
    v1_pods,         \* local `v1_pods`
    instance,        \* local `instance` (result of resource.get by name)
    selectors,       \* value returned by extract_selectors(instance)
    instances,       \* local `instances` (result of the Pod list)
    calls,           \* the network calls issued so far, in order
    result           \* how the invocation ended (fail_json / exception / exit_json)

vars == <<params, pc, name, label_selector, resource, v1_pods, instance,
          selectors, instances, calls, result>>

-----------------------------------------------------------------------------
(* Bounds of the model *)

MaxSelectors == 2    \* longest label_selectors list a caller passes
MaxLabels == 2       \* most entries of a flat selector / of matchLabels
MaxExprs == 2        \* most matchExpressions entries of a selector
MaxPods == 2         \* most items a Pod list returns

-----------------------------------------------------------------------------
(* Python values *)

\* Python's None (a parameter that was not given, a field that is absent)
None == "<None>"

\* bool(x) of an optional string: None and '' are false
Truthy(s) == s # None /\ s # ""

\* str(x) as str.format applies it to an optional string
str(x) == IF x = None THEN "None" ELSE x

RECURSIVE Join(_, _)
\* sep.join(seq)
Join(seq, sep) ==
    IF seq = <<>> THEN ""
    ELSE IF Len(seq) = 1 THEN seq[1]
    ELSE seq[1] \o sep \o Join(Tail(seq), sep)

\* s.lower() on the operator names the model draws
lower(s) ==
    CASE s = "In" -> "in"
      [] s = "NotIn" -> "notin"
      [] s = "Exists" -> "exists"
      [] s = "DoesNotExist" -> "doesnotexist"
      [] s = "Bogus" -> "bogus"
      [] OTHER -> s

RECURSIVE split(_, _)
\* text.split(sep), text a sequence of characters: always at least one piece
split(text, sep) ==
    IF \A i \in DOMAIN text : text[i] # sep THEN <<text>>
    ELSE LET i == CHOOSE j \in DOMAIN text :
                      text[j] = sep /\ \A h \in 1..(j - 1) : text[h] # sep
         IN  <<SubSeq(text, 1, i - 1)>> \o split(SubSeq(text, i + 1, Len(text)), sep)

\* sequences over S of length at most n
SeqUpTo(S, n) == UNION {[1..m -> S] : m \in 0..n}

\* sequences over S of length at most n without a repeated element
DistinctSeqUpTo(S, n) ==
    {s \in SeqUpTo(S, n) : \A i, j \in DOMAIN s : i # j => s[i] # s[j]}

-----------------------------------------------------------------------------
(* The caller's parameters (argspec) *)

Kinds == {[kind |-> "Pod", api_version |-> "v1"],
          [kind |-> "Build", api_version |-> "build.openshift.io/v1"],
          [kind |-> "Deployment", api_version |-> "apps/v1"],
          [kind |-> "PodDisruptionBudget", api_version |-> "policy/v1"]}

Names == {None, "", "example"}

Namespaces == {None, "testing"}

Containers == {None, "main"}

SelectorClauses == {"", "app=example"}

\* self.params as the host tool hands it over, defaults applied
argspec ==
    {[kind |-> k.kind, api_version |-> k.api_version, name |-> n,
      namespace |-> ns, container |-> c, label_selectors |-> ls] :
        k \in Kinds, n \in Names, ns \in Namespaces, c \in Containers,
        ls \in SeqUpTo(SelectorClauses, MaxSelectors)}

-----------------------------------------------------------------------------
(* What the cluster can answer *)

\* subresources the API discovery reports for a resource type
Subresources(kind) ==
    CASE kind = "Pod" -> {"log", "status", "exec"}
      [] kind = "Build" -> {"log", "clone"}
      [] OTHER -> {"scale", "status"}

Descriptor(kind, api_version) ==
    [kind |-> kind, api_version |-> api_version, subresources |-> Subresources(kind)]

NoResource == [kind |-> None, api_version |-> None, subresources |-> {}]

LabelPairs == {[k |-> "a", v |-> "1"], [k |-> "app", v |-> "example"],
               [k |-> "tier", v |-> "web"]}

\* a key/value mapping, as the sequence of its entries in iteration order
Mappings == DistinctSeqUpTo(LabelPairs, MaxLabels)

SupportedOperators == {"Exists", "DoesNotExist", "In", "NotIn"}

Expressions ==
    {[key |-> "b", operator |-> o, values |-> <<>>] : o \in {"Exists", "DoesNotExist", "Bogus"}}
    \cup {[key |-> "c", operator |-> o, values |-> vs] :
            o \in {"In", "NotIn"}, vs \in {<<"x">>, <<"x", "y">>}}

\* instance.spec.selector.  present = FALSE is a missing selector (reads as
\* None).  A present selector is an attribute object of the dynamic client,
\* which is true in a boolean test whatever it holds, `{}` included.  The API
\* leaves empty maps and lists out, so an absent matchLabels or
\* matchExpressions is the empty sequence here (both read as false).
\* A selector is flat (its own entries are the labels) or structured.
Selectors ==
    {[present |-> FALSE, flat |-> <<>>, matchLabels |-> <<>>, matchExpressions |-> <<>>]}
    \cup {[present |-> TRUE, flat |-> m, matchLabels |-> <<>>, matchExpressions |-> <<>>] :
            m \in Mappings}
    \cup {[present |-> TRUE, flat |-> <<>>, matchLabels |-> m, matchExpressions |-> e] :
            m \in Mappings, e \in SeqUpTo(Expressions, MaxExprs)}

\* the objects resource.get(name=...) can return for a descriptor
Instances(res) ==
    {[group |-> None, apiVersion |-> res.api_version, kind |-> res.kind, selector |-> s] :
        s \in Selectors}

NoInstance ==
    [group |-> None, apiVersion |-> None, kind |-> None,
     selector |-> [present |-> FALSE, flat |-> <<>>, matchLabels |-> <<>>,
                   matchExpressions |-> <<>>]]

PodNames == {"example-1abcd", "example-2efgh"}

\* instances.items of a Pod list, each item by its metadata.name, in the
\* order the API returns them
PodLists == DistinctSeqUpTo(PodNames, MaxPods)

\* log texts, as sequences of characters
Logs == {<<>>, <<"h", "i", "\n", "y", "o">>}

-----------------------------------------------------------------------------
(* extract_selectors *)

\* '{0}={1}'.format(k, v)
LabelClause(entry) == entry.k \o "=" \o entry.v

RECURSIVE LabelClauses(_)
\* the loop over a mapping's items, appending one clause per entry
LabelClauses(mapping) ==
    IF mapping = <<>> THEN <<>>
    ELSE <<LabelClause(Head(mapping))>> \o LabelClauses(Tail(mapping))

\* variant: the values joined by a bare comma
ValuesClauseNoSpace(values) == "(" \o Join(values, ",") \o ")"

\* '({0})'.format(', '.join(expression.values))
ValuesClause(values) == "(" \o Join(values, ", ") \o ")"

\* the clause appended for a matchExpressions entry with a supported operator
ExpressionClause(expression) ==
    IF expression.operator = "Exists" THEN expression.key
    ELSE IF expression.operator = "DoesNotExist" THEN "!" \o expression.key
    ELSE expression.key \o " " \o lower(expression.operator) \o " "
         \o ValuesClause(expression.values)

\* variant: the operator named as written, not lowercased
UnsupportedOperatorMessageRaw(operator) ==
    "The k8s_log module does not support the " \o operator
    \o " matchExpression operator"

\* the message of the failure on any other operator
UnsupportedOperatorMessage(operator) ==
    "The k8s_log module does not support the " \o lower(operator)
    \o " matchExpression operator"

RECURSIVE ExpressionClauses(_, _)
\* the loop over matchExpressions: stops at the first unsupported operator
ExpressionClauses(expressions, acc) ==
    IF expressions = <<>>
    THEN [outcome |-> "return", selectors |-> acc, msg |-> ""]
    ELSE IF Head(expressions).operator \in {"Exists", "DoesNotExist", "In", "NotIn"}
    THEN ExpressionClauses(Tail(expressions),
                           Append(acc, ExpressionClause(Head(expressions))))
    ELSE [outcome |-> "fail", selectors |-> acc,
          msg |-> UnsupportedOperatorMessage(Head(expressions).operator)]

\* sep.join(*args): str.join takes exactly one argument, an iterable of
\* strings; any other number of arguments raises TypeError
str_join(sep, args) ==
    IF Len(args) = 1
    THEN [raised |-> FALSE, value |-> Join(args[1], sep)]
    ELSE [raised |-> TRUE, value |-> "TypeError: join() takes exactly one argument"]

\* the self.fail(...) statement for an instance without a selector: its
\* message is built first, by '/'.join(instance.group, instance.apiVersion)
NoSelectorFailure(inst) ==
    LET joined == str_join("/", <<inst.group, inst.apiVersion>>)
    IN  IF joined.raised
        THEN [outcome |-> "raise", selectors |-> <<>>, msg |-> joined.value]
        ELSE [outcome |-> "fail", selectors |-> <<>>,
              msg |-> joined.value \o " " \o str(inst.kind)
                      \o " does not support the log subresource directly, and no Pod selector was found on the object"]

\* extract_selectors(instance): [outcome, selectors, msg], outcome "return"
\* (selectors is the returned list), "fail" (self.fail(msg)) or "raise"
extract_selectors(inst) ==
    LET selector == inst.selector
    IN  IF ~selector.present THEN NoSelectorFailure(inst)
        ELSE IF ~(selector.matchLabels # <<>> \/ selector.matchExpressions # <<>>)
        THEN [outcome |-> "return", selectors |-> LabelClauses(selector.flat), msg |-> ""]
        ELSE ExpressionClauses(selector.matchExpressions,
                               LabelClauses(selector.matchLabels))

-----------------------------------------------------------------------------
(* execute_module *)

Running == [status |-> "running", msg |-> "", changed |-> FALSE,
            log |-> <<>>, log_lines |-> <<>>]

\* one network call: what was asked of the cluster
Call(op, res, n, ns, sel, c) ==
    [op |-> op, resource |-> res, name |-> n, namespace |-> ns,
     label_selector |-> sel, container |-> c]

\* the lookup find_resource(kind, api_version) makes
Describe(kind, api_version) ==
    Call("describe", [kind |-> kind, api_version |-> api_version, subresources |-> {}],
         None, None, None, None)

\* self.fail(msg=...): a structured failure ends the invocation
fail(msg) ==
    /\ result' = [Running EXCEPT !.status = "failed", !.msg = msg]
    /\ pc' = "done"

\* an exception nobody catches (main() has no handler) ends the invocation
Raise(exc) ==
    /\ result' = [Running EXCEPT !.status = "exception", !.msg = exc]
    /\ pc' = "done"

\* `name and label_selector`
BothGiven(n, sel) == Truthy(n) /\ Truthy(sel)

\* variant: a misspelt subresource name
SupportsLogMisspelt(res) == "logs" \in res.subresources

\* variant: the test made on the Pod descriptor instead of the resolved one
SupportsLogOfPods(res) == "log" \in v1_pods.subresources

\* 'log' in resource.subresources
SupportsLog(res) == "log" \in res.subresources

\* variant: the message shows the caller's selectors, not the active selector
NoPodsMessageGiven(namespace, sel) ==
    "No pods in namespace " \o str(namespace) \o " matched selector "
    \o Join(params.label_selectors, ",")

\* the message of the failure on an empty Pod list
NoPodsMessage(namespace, sel) ==
    "No pods in namespace " \o str(namespace) \o " matched selector " \o sel

\* variant: the last item instead of the first
LastPodName(items) == items[Len(items)]

\* instances.items[0].metadata.name
FirstPodName(items) == items[1]

\* kwargs['query_params']['container'], None when kwargs stays empty
QueryContainer(container) == IF Truthy(container) THEN container ELSE None

Init ==
    /\ params \in argspec
    /\ pc = "start"
    /\ name = None
    /\ label_selector = ""
    /\ resource = NoResource
    /\ v1_pods = NoResource
    /\ instance = NoInstance
    /\ selectors = <<>>
    /\ instances = <<>>
    /\ calls = <<>>
    /\ result = Running

\* name/label_selectors are read and checked for exclusivity
Validate ==
    /\ pc = "start"
    /\ name' = params.name
    /\ label_selector' = Join(params.label_selectors, ",")
    /\ IF BothGiven(name', label_selector')
       THEN fail("Only one of name or label_selectors can be provided")
       ELSE pc' = "find_resource" /\ UNCHANGED result
    /\ UNCHANGED <<params, resource, v1_pods, instance, selectors, instances, calls>>

\* resource = self.find_resource(kind, api_version, fail=True)
FindResource ==
    /\ pc = "find_resource"
    /\ calls' = Append(calls, Describe(params.kind, params.api_version))
    /\ \E found \in BOOLEAN :
         IF found
         THEN /\ resource' = Descriptor(params.kind, params.api_version)
              /\ pc' = "find_pods"
              /\ UNCHANGED result
         ELSE /\ fail("Failed to find exact match for " \o params.api_version \o "."
                      \o params.kind \o " by [kind, name, singularName, shortNames]")
              /\ UNCHANGED resource
    /\ UNCHANGED <<params, name, label_selector, v1_pods, instance, selectors, instances>>

\* v1_pods = self.find_resource('Pod', 'v1', fail=True)
FindPods ==
    /\ pc = "find_pods"
    /\ calls' = Append(calls, Describe("Pod", "v1"))
    /\ \E found \in BOOLEAN :
         IF found
         THEN /\ v1_pods' = Descriptor("Pod", "v1")
              /\ pc' = "check_log"
              /\ UNCHANGED result
         ELSE /\ fail("Failed to find exact match for v1.Pod by [kind, name, singularName, shortNames]")
              /\ UNCHANGED v1_pods
    /\ UNCHANGED <<params, name, label_selector, resource, instance, selectors, instances>>

\* the test for the log subresource and, without it, for a name
CheckSubresource ==
    /\ pc = "check_log"
    /\ IF ~SupportsLog(resource)
       THEN IF ~Truthy(params.name)
            THEN fail("name must be provided for resources that do not support the log subresource")
            ELSE pc' = "get" /\ UNCHANGED result
       ELSE pc' = "select" /\ UNCHANGED result
    /\ UNCHANGED <<params, name, label_selector, resource, v1_pods, instance,
                   selectors, instances, calls>>

\* instance = resource.get(name=..., namespace=...)
GetInstance ==
    /\ pc = "get"
    /\ calls' = Append(calls, Call("get", resource, params.name, params.namespace, None, None))
    /\ \/ \E inst \in Instances(resource) :
            /\ instance' = inst
            /\ pc' = "extract"
            /\ UNCHANGED result
       \/ /\ Raise("ApiException")
          /\ UNCHANGED instance
    /\ UNCHANGED <<params, name, label_selector, resource, v1_pods, selectors, instances>>

\* label_selector = ','.join(self.extract_selectors(instance)); resource = v1_pods
ExtractSelectors ==
    /\ pc = "extract"
    /\ LET extracted == extract_selectors(instance)
       IN  IF extracted.outcome = "return"
           THEN /\ selectors' = extracted.selectors
                /\ label_selector' = Join(extracted.selectors, ",")
                /\ resource' = v1_pods
                /\ pc' = "select"
                /\ UNCHANGED result
           ELSE /\ IF extracted.outcome = "fail"
                   THEN fail(extracted.msg)
                   ELSE Raise(extracted.msg)
                /\ UNCHANGED <<selectors, label_selector, resource>>
    /\ UNCHANGED <<params, name, v1_pods, instance, instances, calls>>

\* instances = v1_pods.get(namespace=..., label_selector=label_selector)
ListPods ==
    /\ pc = "select"
    /\ Truthy(label_selector)
    /\ calls' = Append(calls, Call("list", v1_pods, None, params.namespace, label_selector, None))
    /\ \/ \E items \in PodLists :
            /\ instances' = items
            /\ pc' = "pick"
            /\ UNCHANGED result
       \/ /\ Raise("ApiException")
          /\ UNCHANGED instances
    /\ UNCHANGED <<params, name, label_selector, resource, v1_pods, instance, selectors>>

\* variant: the failure on the empty list is recorded but does not end the run
PickFirstFallsThrough ==
    /\ pc = "pick"
    /\ IF instances = <<>>
       THEN /\ result' = [Running EXCEPT !.status = "failed",
                              !.msg = NoPodsMessage(params.namespace, label_selector)]
            /\ pc' = "fetch"
            /\ UNCHANGED <<name, resource>>
       ELSE /\ name' = FirstPodName(instances)
            /\ resource' = v1_pods
            /\ pc' = "fetch"
            /\ UNCHANGED result
    /\ UNCHANGED <<params, label_selector, v1_pods, instance, selectors, instances, calls>>

\* the empty list fails; otherwise the first item becomes the target
PickFirst ==
    /\ pc = "pick"
    /\ IF instances = <<>>
       THEN /\ fail(NoPodsMessage(params.namespace, label_selector))
            /\ UNCHANGED <<name, resource>>
       ELSE /\ name' = FirstPodName(instances)
            /\ resource' = v1_pods
            /\ pc' = "fetch"
            /\ UNCHANGED result
    /\ UNCHANGED <<params, label_selector, v1_pods, instance, selectors, instances, calls>>

\* log = resource.log.get(name=name, namespace=..., **kwargs); exit_json(...)
FetchLog ==
    /\ \/ pc = "fetch"
       \/ pc = "select" /\ ~Truthy(label_selector)
    /\ calls' = Append(calls, Call("log", resource, name, params.namespace, None,
                                   QueryContainer(params.container)))
    /\ \/ \E log \in Logs :
            /\ result' = [status |-> "exited", msg |-> "", changed |-> FALSE,
                          log |-> log, log_lines |-> split(log, "\n")]
            /\ pc' = "done"
       \/ Raise("ApiException")
    /\ UNCHANGED <<params, name, label_selector, resource, v1_pods, instance,
                   selectors, instances>>

Next ==
    \/ Validate
    \/ FindResource
    \/ FindPods
    \/ CheckSubresource
    \/ GetInstance
    \/ ExtractSelectors
    \/ ListPods
    \/ PickFirst
    \/ FetchLog

Spec == Init /\ [][Next]_vars

-----------------------------------------------------------------------------
(* Vocabulary of the properties *)

\* positions in `calls` of the calls of one kind
Idx(op) == {i \in DOMAIN calls : calls[i].op = op}

\* both descriptor lookups succeeded: control reached the subresource test
Resolved == v1_pods # NoResource

\* the descriptor find_resource resolved for the caller's kind lists 'log'
ResolvedHasLog == Resolved /\ "log" \in Subresources(params.kind)

ResolvedLacksLog == Resolved /\ "log" \notin Subresources(params.kind)

PodDescriptor == [kind |-> "Pod", api_version |-> "v1", subresources |-> Subresources("Pod")]

OriginalDescriptor ==
    [kind |-> params.kind, api_version |-> params.api_version,
     subresources |-> Subresources(params.kind)]

\* the instance was fetched and extract_selectors has run on it
Extracted == instance # NoInstance /\ pc \notin {"get", "extract"}

\* the namespace as a message shows it
NamespaceText == IF params.namespace = None THEN "None" ELSE params.namespace

-----------------------------------------------------------------------------
(* C1 *)

\* C1: whenever name is set and label_selectors is a non-empty sequence, the
\* invocation fails with 'Only one of name or label_selectors can be provided'
\* and no network call has been issued.
C1_BothGivenFails ==
    (pc # "start" /\ params.name \notin {None, ""} /\ params.label_selectors # <<>>)
        => /\ pc = "done"
           /\ result.status = "failed"
           /\ result.msg = "Only one of name or label_selectors can be provided"
           /\ calls = <<>>

-----------------------------------------------------------------------------
(* C2 *)

\* C2: when the resolved descriptor lists 'log' and label_selectors is empty,
\* the finished run has issued exactly one log fetch, no get-by-name and no
\* list-by-selector, and the log fetch went to the originally resolved
\* descriptor with the caller's name and namespace.
C2_DirectLogFetch ==
    (pc = "done" /\ ResolvedHasLog /\ params.label_selectors = <<>>)
        => /\ Cardinality(Idx("log")) = 1
           /\ Idx("get") = {}
           /\ Idx("list") = {}
           /\ \A i \in Idx("log") :
                /\ calls[i].resource = OriginalDescriptor
                /\ calls[i].name = params.name
                /\ calls[i].namespace = params.namespace

C2_Witness ==
    /\ pc = "done"
    /\ ResolvedHasLog
    /\ params.label_selectors = <<>>
    /\ params.kind = "Build"
    /\ params.name = "example"
    /\ result.status = "exited"
    /\ Cardinality(Idx("log")) = 1

-----------------------------------------------------------------------------
(* C3 *)

\* C3: when Pods were listed by the active selector and the list returned at
\* least one item, the finished run has issued its log fetch on v1/Pod with the
\* name of the FIRST returned item and the caller's namespace.
C3_FirstPodIsLogged ==
    (pc = "done" /\ Idx("list") # {} /\ instances # <<>>)
        => /\ Cardinality(Idx("log")) = 1
           /\ \A l \in Idx("list") : calls[l].label_selector # ""
           /\ \A i \in Idx("log") :
                /\ calls[i].resource = PodDescriptor
                /\ calls[i].name = instances[1]
                /\ calls[i].namespace = params.namespace

C3_Witness ==
    /\ pc = "done"
    /\ params.kind = "Deployment"
    /\ params.name = "example"
    /\ Len(instances) = 2
    /\ \E i \in Idx("log") : calls[i].name = instances[1] /\ calls[i].name # params.name

-----------------------------------------------------------------------------
(* C4 *)

\* C4: when the Pod list for a non-empty selector returns zero items, the next
\* step fails with the not-found message holding the namespace and the very
\* selector string the list was made with, issues no call, and ends the run
\* without any log fetch.
C4_EmptyListFails ==
    [][(pc = "pick" /\ instances = <<>>)
          => /\ pc' = "done"
             /\ result'.status = "failed"
             /\ calls[Len(calls)].op = "list"
             /\ calls[Len(calls)].label_selector # ""
             /\ result'.msg = "No pods in namespace " \o NamespaceText
                              \o " matched selector " \o calls[Len(calls)].label_selector
             /\ calls' = calls
             /\ Idx("log") = {}]_vars

C4_Witness ==
    /\ pc = "done"
    /\ params.kind = "Deployment"
    /\ params.namespace = "testing"
    /\ Extracted
    /\ Idx("list") # {}
    /\ instances = <<>>
    /\ result.status = "failed"
    /\ result.msg = "No pods in namespace testing matched selector a=1,b"

-----------------------------------------------------------------------------
(* C5 *)

\* C5: when extract_selectors has run on an instance with no selector at all,
\* the invocation has ended in a structured failure whose message names the
\* resource's group/apiVersion and kind and says that it does not support the
\* log subresource and carries no Pod selector.
C5_NoSelectorIsDescribed ==
    (Extracted /\ ~instance.selector.present)
        => /\ pc = "done"
           /\ result.status = "failed"
           /\ result.msg = str(instance.group) \o "/" \o instance.apiVersion \o " "
                           \o instance.kind
                           \o " does not support the log subresource directly, and no Pod selector was found on the object"

-----------------------------------------------------------------------------
(* C6 *)

RECURSIVE CommaSpaced(_)
\* v1, v2, ... as the claim writes the values of In / NotIn
CommaSpaced(values) ==
    IF Len(values) = 0 THEN ""
    ELSE IF Len(values) = 1 THEN values[1]
    ELSE values[1] \o ", " \o CommaSpaced(Tail(values))

\* the clause the claim gives for one matchExpressions entry
ClaimedClause(e) ==
    CASE e.operator = "Exists" -> e.key
      [] e.operator = "DoesNotExist" -> "!" \o e.key
      [] e.operator = "In" -> e.key \o " in (" \o CommaSpaced(e.values) \o ")"
      [] e.operator = "NotIn" -> e.key \o " notin (" \o CommaSpaced(e.values) \o ")"

\* matchLabels and/or matchExpressions populated, every operator supported
StructuredSupported(sel) ==
    /\ sel.present
    /\ sel.matchLabels # <<>> \/ sel.matchExpressions # <<>>
    /\ \A j \in DOMAIN sel.matchExpressions :
         sel.matchExpressions[j].operator \in SupportedOperators

\* C6: for a structured selector whose operators are all supported,
\* extract_selectors returns |matchLabels| + |matchExpressions| clauses: the
\* 'key=value' clauses of matchLabels in the mapping's order, then one clause
\* per matchExpressions entry in the given order (key, !key, key in (..),
\* key notin (..)); {a:1} plus Exists b gives ["a=1", "b"], In c [x, y] gives
\* ["c in (x, y)"].
C6_StructuredClauses ==
    (Extracted /\ StructuredSupported(instance.selector))
        => LET ml == instance.selector.matchLabels
               me == instance.selector.matchExpressions
           IN  /\ Len(selectors) = Len(ml) + Len(me)
               /\ \A i \in DOMAIN ml : selectors[i] = ml[i].k \o "=" \o ml[i].v
               /\ \A j \in DOMAIN me : selectors[Len(ml) + j] = ClaimedClause(me[j])
               /\ (/\ ml = <<[k |-> "a", v |-> "1"]>>
                   /\ me = <<[key |-> "b", operator |-> "Exists", values |-> <<>>]>>)
                      => selectors = <<"a=1", "b">>
               /\ (/\ ml = <<>>
                   /\ me = <<[key |-> "c", operator |-> "In", values |-> <<"x", "y">>]>>)
                      => selectors = <<"c in (x, y)">>

C6_Witness ==
    /\ Extracted
    /\ instance.selector.matchLabels = <<[k |-> "app", v |-> "example"], [k |-> "a", v |-> "1"]>>
    /\ instance.selector.matchExpressions =
          <<[key |-> "c", operator |-> "NotIn", values |-> <<"x", "y">>],
            [key |-> "b", operator |-> "DoesNotExist", values |-> <<>>]>>
    /\ selectors = <<"app=example", "a=1", "c notin (x, y)", "!b">>

-----------------------------------------------------------------------------
(* C7 *)

\* C7: when the resolved descriptor does not list 'log' and no name is set,
\* the invocation fails with 'name must be provided ...' and issues no
\* get-by-name, no list-by-selector and no log fetch, label_selectors given or
\* not.
C7_NameRequired ==
    (ResolvedLacksLog /\ params.name \in {None, ""})
        => /\ Idx("get") = {}
           /\ Idx("list") = {}
           /\ Idx("log") = {}
           /\ pc # "check_log"
                => /\ pc = "done"
                   /\ result.status = "failed"
                   /\ result.msg = "name must be provided for resources that do not support the log subresource"

C7_Witness ==
    /\ pc = "done"
    /\ ResolvedLacksLog
    /\ params.name = None
    /\ params.label_selectors = <<"app=example">>
    /\ result.status = "failed"
    /\ Len(calls) = 2

-----------------------------------------------------------------------------
(* C8 *)

HasUnsupportedOperator(sel) ==
    \E j \in DOMAIN sel.matchExpressions :
        sel.matchExpressions[j].operator \notin SupportedOperators

\* C8: when a matchExpressions entry of the fetched instance has an operator
\* outside {Exists, DoesNotExist, In, NotIn}, extract_selectors fails with the
\* unsupported-operator message naming the lowercased operator ('Bogus' is
\* reported as 'bogus'), and no list-by-selector or log fetch is issued.
C8_UnsupportedOperatorFails ==
    (instance # NoInstance /\ HasUnsupportedOperator(instance.selector))
        => /\ Idx("list") = {}
           /\ Idx("log") = {}
           /\ Extracted
                => /\ pc = "done"
                   /\ result.status = "failed"
                   /\ result.msg = "The k8s_log module does not support the bogus matchExpression operator"

C8_Witness ==
    /\ pc = "done"
    /\ Extracted
    /\ instance.selector.matchLabels # <<>>
    /\ Len(instance.selector.matchExpressions) = 2
    /\ instance.selector.matchExpressions[1].operator = "In"
    /\ instance.selector.matchExpressions[2].operator = "Bogus"
    /\ result.status = "failed"

-----------------------------------------------------------------------------
(* C9 *)

\* the step of the fixed order (describe kind, describe Pod, get-by-name,
\* list-by-selector, log fetch) the i-th call belongs to
StepOf(i) ==
    CASE calls[i].op = "describe" -> IF i = 1 THEN 1 ELSE 2
      [] calls[i].op = "get" -> 3
      [] calls[i].op = "list" -> 4
      [] calls[i].op = "log" -> 5

CallsInOrder ==
    /\ Len(calls) <= 5
    /\ \A i, j \in DOMAIN calls : i < j => StepOf(i) < StepOf(j)
    /\ \A i \in DOMAIN calls :
         /\ StepOf(i) = 1 => calls[i] = Describe(params.kind, params.api_version)
         /\ StepOf(i) = 2 => calls[i] = Describe("Pod", "v1")
         /\ calls[i].op = "log" => i = Len(calls)

Failed == result.status \in {"failed", "exception"}

\* C9: the calls of a run are a subsequence of (describe kind, describe Pod,
\* get-by-name, list-by-selector, log fetch), each issued at most once, the log
\* fetch last; once a step has failed no call is issued and the failure stays
\* the result.
C9_OrderedCalls ==
    /\ []CallsInOrder
    /\ [](Failed => pc = "done")
    /\ [][Failed => (calls' = calls /\ result' = result)]_vars

C9_Witness ==
    /\ pc = "done"
    /\ Len(calls) = 4
    /\ result.status = "failed"

-----------------------------------------------------------------------------
(* C10 *)

\* C10: for a resolved resource without the log subresource, every log fetch
\* comes after a get-by-name of the instance and a list of Pods by the derived
\* selector, and fetches a Pod that this list returned, never the Pod that has
\* the caller's controller name.
C10_LogOnlyOfListedPod ==
    ResolvedLacksLog
        => \A i \in Idx("log") :
             /\ \E g \in Idx("get") : g < i
             /\ \E l \in Idx("list") :
                  l < i /\ calls[l].label_selector = Join(selectors, ",")
             /\ \E p \in DOMAIN instances : calls[i].name = instances[p]

====
